---- MODULE Spec2Model ----
(***************************************************************************)
(* Model of flask_server/app.py: the /run-matlab handler (run_matlab), the *)
(* demo generator (generate_demo_results) and the process environment     *)
(* they read (os.environ, the results directory, the engine subprocess).  *)
(***************************************************************************)
EXTENDS Integers, Sequences, FiniteSets, TLC

(* ---------------------------------------------------------------------- *)
(* Bounds of the model                                                     *)
(* ---------------------------------------------------------------------- *)
\* number of handler threads of the threaded server
NReq == 2
\* how many requests the clients send in all
MaxRequests == 2
\* how many times os.environ is changed by somebody else while the server runs
MaxEnvChanges == 1

Req == 1..NReq

(* ---------------------------------------------------------------------- *)
(* Text.  A text is a sequence of chunks (words of the engine's output,   *)
(* lines of the report, the literal prefixes of run_matlab); `+` is \o.   *)
(* ---------------------------------------------------------------------- *)
\* str.lower() on the chunks it is applied to: the words the engine prints, the
\* chunks of a question, the words and labels of a report
Lower(s) ==
    CASE s = "MATLAB" -> "matlab"
      [] s = "Not" -> "not"
      [] s = "Found" -> "found"
      [] s = "RESULTS" -> "results"
      [] s = "License" -> "license"
      [] s = "Profit" -> "profit"
      [] s = "Soil" -> "soil"
      [] s \in {"Good", "GOOD"} -> "good"
      [] s = "Moderate" -> "moderate"
      [] s = "Poor" -> "poor"
      [] s = "Excellent" -> "excellent"
      [] s \in {"Low", "LOW"} -> "low"
      [] s = "Medium" -> "medium"
      [] s = "High" -> "high"
      [] s = "Severe" -> "severe"
      [] s \in {"Overall Crop Health Status:", "OVERALL CROP HEALTH STATUS:"} ->
            "overall crop health status:"
      [] s = "Overall Pest Risk Level:" -> "overall pest risk level:"
      [] OTHER -> s

LowerText(t) == [i \in 1..Len(t) |-> Lower(t[i])]

\* `needle in text`: needle occurs as a contiguous run of text
Contains(text, needle) ==
    \E i \in 0..(Len(text) - Len(needle)) :
        \A j \in 1..Len(needle) : text[i + j] = needle[j]

(* ---------------------------------------------------------------------- *)
(* os.environ                                                              *)
(* ---------------------------------------------------------------------- *)
Unset == "<unset>"
FlagValues == {Unset, "1"}
CmdValues == {Unset, "octave"}
Environs == [DEMO_MODE : FlagValues, STRICT_MATLAB : FlagValues, MATLAB_CMD : CmdValues]

\* os.getenv(name, default)
Getenv(e, name, default) == IF e[name] = Unset THEN default ELSE e[name]

\* os.getenv('DEMO_MODE', '0') == '1'
DemoForced(e) == Getenv(e, "DEMO_MODE", "0") = "1"

\* a strict test that compares with the wrong literal, so that it never fails
StrictOffWrongLiteral(e) == Getenv(e, "STRICT_MATLAB", "0") # "true"

\* os.getenv('STRICT_MATLAB', '0') != '1'
StrictOff(e) == Getenv(e, "STRICT_MATLAB", "0") # "1"

(* ---------------------------------------------------------------------- *)
(* The results directory                                                   *)
(* ---------------------------------------------------------------------- *)
\* the maps generate_demo_results saves, in the order it saves them
MapNames == << "ndvi_map", "gndvi_map", "ndre_map", "savi_map", "evi_map",
               "soil_condition_map", "crop_health_map", "pest_risk_map",
               "pest_risk_score_map" >>
NMaps == Len(MapNames)

\* a file of the directory: its stem and its extension
File(stem, ext) == [stem |-> stem, ext |-> ext]
MapFile(k) == File(MapNames[k], ".png")

\* what the directory can hold before the server starts
OldFiles == {File("field_rgb", ".png"), File("report", ".txt")}
\* what a run of the engine's main.m can leave behind
EngineFileSets == {{}, {File("ndvi_map", ".png"), File("summary", ".png")}}

\* what a file holds: who painted it, and for the maps of save_colormap the
\* seed of the random.Random that drew the noise (the pixels are a function
\* of the seed)
Painted(painter, seed) == [painter |-> painter, seed |-> seed]
\* the seeds of lines 204-212; save_discrete_rgb draws no noise
MapSeeds == << 1, 2, 3, 4, 5, 6, 0, 0, 7 >>
MapPainter(k) == IF MapNames[k] \in {"crop_health_map", "pest_risk_map"}
                 THEN "save_discrete_rgb" ELSE "save_colormap"
MapPixels(k) == Painted(MapPainter(k), MapSeeds[k])
EnginePixels == Painted("main.m", 0)
OldPixels == Painted("earlier", 0)

\* directory d with its contents c after the files fs were written with p
Written(d, c, fs, p) == [f \in d \cup fs |-> IF f \in fs THEN p ELSE c[f]]

\* a listing that forgets the extension filter
AllFiles(d) == d

\* [f for f in os.listdir(RESULTS_DIR) if f.endswith('.png')]
PngFiles(d) == {f \in d : f.ext = ".png"}
\* [f'/results/{f}' for f in image_files]
ImageUrls(files) == {<<"/results/", f.stem, f.ext>> : f \in files}

(* ---------------------------------------------------------------------- *)
(* generate_demo_results: the report text                                  *)
(* ---------------------------------------------------------------------- *)
\* the f-string of generate_demo_results, one chunk per line; <epoch> and
\* <now> stand for int(time_time_safe()) and the formatted utcnow()
DemoReportLines ==
    << "",
       "=== AGRICULTURAL MONITORING RESULTS ===",
       "",
       "EXECUTIVE SUMMARY",
       "================",
       "Report ID: DEMO-<epoch>",
       "Analysis Date: <now>",
       "Overall Assessment: Good (Score: 0.82)",
       "Risk Level: Medium",
       "",
       "CROP HEALTH ANALYSIS",
       "====================",
       "Overall Health: Good (Score: 0.78)",
       "Confidence: 0.85",
       "",
       "Vegetation Indices:",
       "  NDVI: 0.612 (Healthy)",
       "  GNDVI: 0.488 (Healthy)",
       "  NDRE: 0.212 (Moderate)",
       "  SAVI: 0.365 (Moderate)",
       "  EVI: 0.304 (Moderate)",
       "",
       "Health Distribution:",
       "  Healthy: 62.5%",
       "  Stressed: 25.0%",
       "  Unhealthy: 12.5%",
       "",
       "SOIL CONDITION ANALYSIS",
       "=======================",
       "Overall Health: Good (Score: 0.81)",
       "",
       "Soil Parameters:",
       "  Moisture: 0.18 (Adequate)",
       "  Temperature: 22.1 deg C (Optimal)",
       "  pH: 6.7 (Optimal)",
       "  EC: 1.35 dS/m (Normal)",
       "",
       "PEST RISK ANALYSIS",
       "==================",
       "Overall Risk: Medium (Score: 0.46)",
       "Confidence: 0.77",
       "",
       "Specific Pest Risks:",
       "  Aphids: 0.42 (Medium Risk)",
       "  Whiteflies: 0.28 (Low Risk)",
       "  Thrips: 0.31 (Medium Risk)",
       "  Spider Mites: 0.22 (Low Risk)",
       "  Caterpillars: 0.18 (Low Risk)",
       "",
       "RECOMMENDATIONS",
       "===============",
       "Crop Health Recommendations:",
       "* Maintain current irrigation; spot-check yellow areas.",
       "",
       "Soil Condition Recommendations:",
       "* If moisture < 0.2, apply 10-20 mm irrigation.",
       "",
       "Pest Management Recommendations:",
       "* Medium pest pressure; scout hotspots before spraying.",
       "",
       "Integrated Recommendations:",
       "* Prioritize scouting in medium/high-risk patches, then re-check indices in 3 days.",
       "",
       "=== END OF RESULTS ===",
       "" >>

(* ---------------------------------------------------------------------- *)
(* run_matlab: literals and envelopes                                      *)
(* ---------------------------------------------------------------------- *)
UnavailablePrefix ==
    << "MATLAB not found on PATH; running in DEMO mode. Set DEMO_MODE=0 and ensure MATLAB_CMD points to a valid MATLAB binary to run full analysis.",
       "\n\n" >>
FailedPrefix ==
    << "MATLAB command failed or not found; running in DEMO mode instead. Error details:\n" >>

\* a fallback that puts its notice after the generated report
UnavailableDemoOutputTrailing(report) == report \o << "\n\n" >> \o UnavailablePrefix

\* the three places that build demo_output
ForcedDemoOutput(report) == report
UnavailableDemoOutput(report) == UnavailablePrefix \o report
FailedDemoOutput(stderr, report) == FailedPrefix \o stderr \o << "\n\n" >> \o report

\* jsonify({'output': .., 'images': .., 'full_context': .., 'mode': 'demo'})
DemoEnvelope(output, urls) ==
    [kind |-> "result", output |-> output, images |-> urls,
     full_context |-> output, mode |-> "demo"]

\* jsonify({'output': output, 'images': image_urls, 'full_context': output, 'mode': 'matlab'})
MatlabEnvelope(output, urls) ==
    [kind |-> "result", output |-> output, images |-> urls,
     full_context |-> output, mode |-> "matlab"]

\* jsonify({'error': 'MATLAB script execution failed.', 'details': stderr})
FailedEnvelope(stderr) ==
    [kind |-> "error", error |-> "MATLAB script execution failed.", details |-> stderr]

\* except Exception as e: jsonify({'error': str(e)})
ExceptionEnvelope(msg) == [kind |-> "error", error |-> msg]

NameErrorMsg == "name 'generate_demo_results' is not defined"
OSErrorMsg == "[Errno 28] No space left on device"

NoResponse == [kind |-> "none"]

(* ---------------------------------------------------------------------- *)
(* The engine subprocess                                                   *)
(* ---------------------------------------------------------------------- *)
ReturnCodes == {0, 1, 127}
StdoutTexts == { << >>, << "RESULTS" >> }
\* what the shell or the engine can print on stderr running command c
StderrTexts(c) ==
    { << >>,
      << "/bin/sh:", c, "not", "found" >>,
      << "MATLAB", "toolbox", "Not", "Found" >>,
      << "License", "checkout", "failed" >> }

\* subprocess.run(command, shell=True, capture_output=True, text=True):
\* a command the search path does not hold is answered by the shell itself,
\* with 127 and "<c>: not found" (sh) or with 1 and "is not recognized" (cmd.exe)
ProcessResults(c, onPath) ==
    IF onPath
    THEN [returncode : ReturnCodes, stdout : StdoutTexts, stderr : StderrTexts(c)]
    ELSE { [returncode |-> 127, stdout |-> << >>, stderr |-> << "/bin/sh:", c, "not", "found" >>],
           [returncode |-> 1, stdout |-> << >>,
            stderr |-> << c, "is", "not", "recognized" >>] }

\* stderr = (process.stdout or '') + (process.stderr or '')
Diagnostic(p) == p.stdout \o p.stderr

\* ('not found' in stderr.lower() and 'matlab' in stderr.lower()) or process.returncode == 127
NotFoundSignature(p) ==
    \/ /\ Contains(LowerText(Diagnostic(p)), << "not", "found" >>)
       /\ Contains(LowerText(Diagnostic(p)), << "matlab" >>)
    \/ p.returncode = 127

(* ---------------------------------------------------------------------- *)
(* State                                                                   *)
(* ---------------------------------------------------------------------- *)
VARIABLES
    threads,        \* how many handler threads the server runs (1: one request at a time)
    asMain,         \* the server was started as `python app.py`: app.run() blocks at
                    \* line 162, before the defs of lines 168-317 are executed
    pillow,         \* `from PIL import Image` succeeded (Image is not None)
    environ,        \* os.environ
    envChanges,     \* how many times os.environ was changed since the server started
    requests,       \* how many requests the clients have sent
    dir,            \* the files of RESULTS_DIR
    pixels,         \* what each file of RESULTS_DIR holds
    pc,             \* where each handler thread is in run_matlab
    path,           \* which branch of run_matlab called generate_demo_results
    n,              \* how many maps the running generate_demo_results has saved
    cmd,            \* matlab_cmd
    onPath,         \* shutil.which(matlab_cmd) is not None
    proc,           \* the CompletedProcess of subprocess.run
    resp,           \* the response of the request
    dirAtBegin,     \* history: RESULTS_DIR when the request entered run_matlab
    cfg0,           \* history: os.environ when the request entered run_matlab
    strictUsed,     \* history: what line 67 read for STRICT_MATLAB
    spawned,        \* history: subprocess.run was called
    genCalled,      \* history: the body of generate_demo_results was entered
    writeFailed,    \* history: a save of generate_demo_results raised
    stable,         \* history: os.environ did not change while the request ran
    conc,           \* history: another request was running while this one ran
    dirAtWriteEnd,  \* history: RESULTS_DIR when the request saved its last map
    dirAtList,      \* history: RESULTS_DIR when the request ran os.listdir
    message,        \* chat(): the 'message' of the request in hand
    context,        \* chat(): its 'analysis_context'
    reply,          \* chat(): what get_ai_response returned
    grey,           \* apply_jet_palette: the intensity v of the pixel in hand
    rgb             \* apply_jet_palette: what jet_rgb returned for it

locals == << pc, path, n, cmd, onPath, proc, resp >>
hist == << dirAtBegin, cfg0, strictUsed, spawned, genCalled, writeFailed, stable, conc,
           dirAtWriteEnd, dirAtList >>
\* the state of the /chat handler and of the palette
aux == << message, context, reply, grey, rgb >>
vars == << threads, asMain, pillow, environ, envChanges, requests, dir, pixels, locals,
          hist, aux >>

NoProc == [returncode |-> -1, stdout |-> << >>, stderr |-> << >>]
\* no reply of get_ai_response yet, no colour of jet_rgb yet
NoReply == << "<no reply>" >>
NoColour == << >>
InFlight(r) == pc[r] \notin {"idle", "done"}

\* the handler threads before the first request arrives
Start ==
    /\ envChanges = 0
    /\ requests = 0
    /\ pc = [r \in Req |-> "idle"]
    /\ path = [r \in Req |-> "none"]
    /\ n = [r \in Req |-> 0]
    /\ cmd = [r \in Req |-> "matlab"]
    /\ onPath = [r \in Req |-> FALSE]
    /\ proc = [r \in Req |-> NoProc]
    /\ resp = [r \in Req |-> NoResponse]
    /\ dirAtBegin = [r \in Req |-> dir]
    /\ cfg0 = [r \in Req |-> environ]
    /\ strictUsed = [r \in Req |-> "unread"]
    /\ spawned = [r \in Req |-> FALSE]
    /\ genCalled = [r \in Req |-> FALSE]
    /\ writeFailed = [r \in Req |-> FALSE]
    /\ stable = [r \in Req |-> TRUE]
    /\ conc = [r \in Req |-> FALSE]
    /\ dirAtWriteEnd = [r \in Req |-> {}]
    /\ dirAtList = [r \in Req |-> {}]

\* no /chat request and no pixel in hand
NoChat == message = << >> /\ context = << >> /\ reply = NoReply
NoPixel == grey = 0 /\ rgb = NoColour

\* a server that handles one request at a time
Init ==
    /\ threads = 1
    /\ asMain \in BOOLEAN
    /\ pillow \in BOOLEAN
    /\ environ \in Environs
    /\ dir \in {{}, OldFiles}
    /\ pixels = [f \in dir |-> OldPixels]
    /\ Start
    /\ NoChat
    /\ NoPixel

\* app.run(debug=debug, host='0.0.0.0', port=port): Flask's server is threaded
InitThreaded ==
    /\ threads = NReq
    /\ asMain \in BOOLEAN
    /\ pillow \in BOOLEAN
    /\ environ = [DEMO_MODE |-> "1", STRICT_MATLAB |-> Unset, MATLAB_CMD |-> Unset]
    /\ dir = {}
    /\ pixels = [f \in dir |-> OldPixels]
    /\ Start
    /\ NoChat
    /\ NoPixel

(* ---------------------------------------------------------------------- *)
(* run_matlab                                                              *)
(* ---------------------------------------------------------------------- *)
\* the call generate_demo_results(RESULTS_DIR) made by branch b: a NameError
\* (caught at line 84) when the def was never executed, else the body starts;
\* without Pillow the body saves nothing and goes on to the text
CallGenerator(r, b) ==
    IF asMain
    THEN /\ resp' = [resp EXCEPT ![r] = ExceptionEnvelope(NameErrorMsg)]
         /\ pc' = [pc EXCEPT ![r] = "done"]
         /\ path' = [path EXCEPT ![r] = b]
         /\ n' = [n EXCEPT ![r] = 0]
         /\ genCalled' = [genCalled EXCEPT ![r] = FALSE]
         /\ dirAtWriteEnd' = [dirAtWriteEnd EXCEPT ![r] = {}]
    ELSE /\ resp' = [resp EXCEPT ![r] = NoResponse]
         /\ pc' = [pc EXCEPT ![r] = IF pillow THEN "gen" ELSE "list"]
         /\ path' = [path EXCEPT ![r] = b]
         /\ n' = [n EXCEPT ![r] = 0]
         /\ genCalled' = [genCalled EXCEPT ![r] = TRUE]
         /\ dirAtWriteEnd' = [dirAtWriteEnd EXCEPT ![r] = dir]

\* lines 33-61: a request enters run_matlab on thread r; the DEMO_MODE test,
\* MATLAB_CMD, shutil.which, the first STRICT_MATLAB test and the start of
\* subprocess.run
Begin(r) ==
    /\ r <= threads
    /\ pc[r] \in {"idle", "done"}
    /\ requests < MaxRequests
    /\ requests' = requests + 1
    /\ dirAtBegin' = [dirAtBegin EXCEPT ![r] = dir]
    /\ cfg0' = [cfg0 EXCEPT ![r] = environ]
    /\ conc' = [q \in Req |-> IF q = r THEN \E o \in Req \ {r} : InFlight(o)
                              ELSE conc[q] \/ InFlight(q)]
    /\ stable' = [stable EXCEPT ![r] = TRUE]
    /\ strictUsed' = [strictUsed EXCEPT ![r] = "unread"]
    /\ writeFailed' = [writeFailed EXCEPT ![r] = FALSE]
    /\ dirAtList' = [dirAtList EXCEPT ![r] = {}]
    /\ proc' = [proc EXCEPT ![r] = NoProc]
    /\ \/ /\ DemoForced(environ)
          /\ CallGenerator(r, "forced")
          /\ cmd' = [cmd EXCEPT ![r] = "matlab"]
          /\ onPath' = [onPath EXCEPT ![r] = FALSE]
          /\ spawned' = [spawned EXCEPT ![r] = FALSE]
       \/ /\ ~DemoForced(environ)
          /\ \E w \in BOOLEAN :
               /\ cmd' = [cmd EXCEPT ![r] = Getenv(environ, "MATLAB_CMD", "matlab")]
               /\ onPath' = [onPath EXCEPT ![r] = w]
               /\ IF ~w /\ StrictOff(environ)
                  THEN /\ CallGenerator(r, "unavailable")
                       /\ spawned' = [spawned EXCEPT ![r] = FALSE]
                  ELSE /\ spawned' = [spawned EXCEPT ![r] = TRUE]
                       /\ pc' = [pc EXCEPT ![r] = "wait"]
                       /\ resp' = [resp EXCEPT ![r] = NoResponse]
                       /\ path' = [path EXCEPT ![r] = "none"]
                       /\ n' = [n EXCEPT ![r] = 0]
                       /\ genCalled' = [genCalled EXCEPT ![r] = FALSE]
                       /\ dirAtWriteEnd' = [dirAtWriteEnd EXCEPT ![r] = {}]
    /\ UNCHANGED << threads, asMain, pillow, environ, envChanges, dir, pixels, aux >>

\* the engine process ends: subprocess.run returns its CompletedProcess; a run
\* of main.m that ends with status 0 has saved its maps
EngineExit(r) ==
    /\ pc[r] = "wait"
    /\ \E p \in ProcessResults(cmd[r], onPath[r]) :
       \E fs \in (IF p.returncode = 0 THEN EngineFileSets ELSE {{}}) :
         /\ proc' = [proc EXCEPT ![r] = p]
         /\ dir' = dir \cup fs
         /\ pixels' = Written(dir, pixels, fs, EnginePixels)
    /\ pc' = [pc EXCEPT ![r] = "exited"]
    /\ UNCHANGED << threads, asMain, pillow, environ, envChanges, requests,
                    path, n, cmd, onPath, resp, hist, aux >>

\* lines 63-82
AfterExit(r) ==
    /\ pc[r] = "exited"
    /\ IF proc[r].returncode # 0
       THEN IF NotFoundSignature(proc[r])
            THEN /\ strictUsed' = [strictUsed EXCEPT ![r] =
                        Getenv(environ, "STRICT_MATLAB", "0")]
                 /\ IF StrictOff(environ)
                    THEN /\ CallGenerator(r, "failed")
                         /\ UNCHANGED dirAtList
                    ELSE /\ resp' = [resp EXCEPT ![r] = FailedEnvelope(Diagnostic(proc[r]))]
                         /\ pc' = [pc EXCEPT ![r] = "done"]
                         /\ UNCHANGED << path, n, genCalled, dirAtWriteEnd, dirAtList >>
            ELSE /\ resp' = [resp EXCEPT ![r] = FailedEnvelope(Diagnostic(proc[r]))]
                 /\ pc' = [pc EXCEPT ![r] = "done"]
                 /\ UNCHANGED << path, n, genCalled, dirAtWriteEnd, dirAtList, strictUsed >>
       ELSE /\ resp' = [resp EXCEPT ![r] =
                   MatlabEnvelope(proc[r].stdout, ImageUrls(PngFiles(dir)))]
            /\ dirAtList' = [dirAtList EXCEPT ![r] = dir]
            /\ pc' = [pc EXCEPT ![r] = "done"]
            /\ UNCHANGED << path, n, genCalled, dirAtWriteEnd, strictUsed >>
    /\ UNCHANGED << threads, asMain, pillow, environ, envChanges, requests, dir, pixels,
                    cmd, onPath, proc, dirAtBegin, cfg0, spawned, writeFailed, stable, conc, aux >>

(* ---------------------------------------------------------------------- *)
(* generate_demo_results                                                   *)
(* ---------------------------------------------------------------------- *)
\* a generator that swallows the exception of a save and goes on to the next map
SaveMapSwallowingError(r) ==
    /\ pc[r] = "gen"
    /\ n[r] < NMaps
    /\ \/ /\ dir' = dir \cup {MapFile(n[r] + 1)}
          /\ pixels' = Written(dir, pixels, {MapFile(n[r] + 1)}, MapPixels(n[r] + 1))
          /\ UNCHANGED writeFailed
       \/ /\ dir' = dir
          /\ pixels' = pixels
          /\ writeFailed' = [writeFailed EXCEPT ![r] = TRUE]
    /\ n' = [n EXCEPT ![r] = n[r] + 1]
    /\ pc' = [pc EXCEPT ![r] = IF n[r] + 1 = NMaps THEN "list" ELSE "gen"]
    /\ dirAtWriteEnd' = [dirAtWriteEnd EXCEPT ![r] = dir']
    /\ UNCHANGED << threads, asMain, pillow, environ, envChanges, requests,
                    path, cmd, onPath, proc, resp,
                    dirAtBegin, cfg0, strictUsed, spawned, genCalled, stable, conc, dirAtList, aux >>

\* a generator whose failed save takes the file of that name out of the directory
SaveMapUnlinkingOnError(r) ==
    /\ pc[r] = "gen"
    /\ n[r] < NMaps
    /\ \/ /\ dir' = dir \cup {MapFile(n[r] + 1)}
          /\ pixels' = Written(dir, pixels, {MapFile(n[r] + 1)}, MapPixels(n[r] + 1))
          /\ n' = [n EXCEPT ![r] = n[r] + 1]
          /\ pc' = [pc EXCEPT ![r] = IF n[r] + 1 = NMaps THEN "list" ELSE "gen"]
          /\ dirAtWriteEnd' = [dirAtWriteEnd EXCEPT ![r] = dir']
          /\ UNCHANGED << resp, writeFailed >>
       \/ /\ dir' = dir \ {MapFile(n[r] + 1)}
          /\ pixels' = [f \in dir' |-> pixels[f]]
          /\ resp' = [resp EXCEPT ![r] = ExceptionEnvelope(OSErrorMsg)]
          /\ writeFailed' = [writeFailed EXCEPT ![r] = TRUE]
          /\ pc' = [pc EXCEPT ![r] = "done"]
          /\ UNCHANGED << n, dirAtWriteEnd >>
    /\ UNCHANGED << threads, asMain, pillow, environ, envChanges, requests,
                    path, cmd, onPath, proc,
                    dirAtBegin, cfg0, strictUsed, spawned, genCalled, stable, conc, dirAtList, aux >>

\* lines 204-212: the next save_colormap / save_discrete_rgb call.  The save
\* either writes the file or raises (the exception ends the request at line
\* 84; Pillow removes the file it could not finish).
SaveMap(r) ==
    /\ pc[r] = "gen"
    /\ n[r] < NMaps
    /\ \/ /\ dir' = dir \cup {MapFile(n[r] + 1)}
          /\ pixels' = Written(dir, pixels, {MapFile(n[r] + 1)}, MapPixels(n[r] + 1))
          /\ n' = [n EXCEPT ![r] = n[r] + 1]
          /\ pc' = [pc EXCEPT ![r] = IF n[r] + 1 = NMaps THEN "list" ELSE "gen"]
          /\ dirAtWriteEnd' = [dirAtWriteEnd EXCEPT ![r] = dir']
          /\ UNCHANGED << resp, writeFailed >>
       \/ /\ dir' = dir
          /\ pixels' = pixels
          /\ resp' = [resp EXCEPT ![r] = ExceptionEnvelope(OSErrorMsg)]
          /\ writeFailed' = [writeFailed EXCEPT ![r] = TRUE]
          /\ pc' = [pc EXCEPT ![r] = "done"]
          /\ UNCHANGED << n, dirAtWriteEnd >>
    /\ UNCHANGED << threads, asMain, pillow, environ, envChanges, requests,
                    path, cmd, onPath, proc,
                    dirAtBegin, cfg0, strictUsed, spawned, genCalled, stable, conc, dirAtList, aux >>

\* lines 215-281: the text generate_demo_results returns
GeneratedReport == DemoReportLines

\* demo_output of the branch that called the generator (lines 36, 53-54, 68)
DemoOutput(b, p) ==
    CASE b = "forced" -> ForcedDemoOutput(GeneratedReport)
      [] b = "unavailable" -> UnavailableDemoOutput(GeneratedReport)
      [] b = "failed" -> FailedDemoOutput(Diagnostic(p), GeneratedReport)

\* the generator returned: os.listdir, image_urls, jsonify (lines 37-39, 55-57, 69-71)
ListAndRespond(r) ==
    /\ pc[r] = "list"
    /\ resp' = [resp EXCEPT ![r] =
            DemoEnvelope(DemoOutput(path[r], proc[r]), ImageUrls(PngFiles(dir)))]
    /\ dirAtList' = [dirAtList EXCEPT ![r] = dir]
    /\ pc' = [pc EXCEPT ![r] = "done"]
    /\ UNCHANGED << threads, asMain, pillow, environ, envChanges, requests, dir, pixels,
                    path, n, cmd, onPath, proc,
                    dirAtBegin, cfg0, strictUsed, spawned, genCalled, writeFailed, stable, conc,
                    dirAtWriteEnd, aux >>

(* ---------------------------------------------------------------------- *)
(* The environment of the server                                           *)
(* ---------------------------------------------------------------------- *)
\* somebody assigns os.environ[name] while the server runs
SetEnv ==
    /\ envChanges < MaxEnvChanges
    /\ \E name \in {"DEMO_MODE", "STRICT_MATLAB", "MATLAB_CMD"} :
       \E v \in (IF name = "MATLAB_CMD" THEN CmdValues ELSE FlagValues) \ {environ[name]} :
           environ' = [environ EXCEPT ![name] = v]
    /\ envChanges' = envChanges + 1
    /\ stable' = [r \in Req |-> stable[r] /\ ~InFlight(r)]
    /\ UNCHANGED << threads, asMain, pillow, requests, dir, pixels, locals, dirAtBegin, cfg0, strictUsed,
                    spawned, genCalled, writeFailed, conc, dirAtWriteEnd, dirAtList, aux >>

\* the steps of the handler thread of request r
Handler(r) == AfterExit(r) \/ SaveMap(r) \/ ListAndRespond(r)

Next ==
    \/ \E r \in Req : Begin(r)
    \/ \E r \in Req : EngineExit(r)
    \/ \E r \in Req : AfterExit(r)
    \/ \E r \in Req : SaveMap(r)
    \/ \E r \in Req : ListAndRespond(r)
    \/ SetEnv

Spec == Init /\ [][Next]_vars
ThreadedSpec == InitThreaded /\ [][Next]_vars

\* a handler thread that can take a step takes it; nothing makes the engine
\* process end, and nothing makes a client send a request
FairSpec == Spec /\ \A r \in Req : WF_vars(Handler(r))

(* ====================================================================== *)
(* get_ai_response: the rule-based assistant behind /chat                  *)
(* ====================================================================== *)
\* how many chunks a question has at most
MaxQuestionLen == 3

\* \s: a chunk of white space (an empty line of the report counts as one)
IsSpace(c) == c \in {"", " ", "\n", "\n\n"}

\* \w+: the chunks that are one word of letters, digits and underscores
Words ==
    {"Good", "GOOD", "good", "Moderate", "moderate", "Poor", "poor", "Excellent", "excellent",
     "Low", "LOW", "low", "Medium", "medium", "High", "high", "Severe", "severe",
     "unknown", "profit", "Profit", "crop", "health", "Soil", "soil", "moisture", "pest",
     "recommendations", "RECOMMENDATIONS", "RESULTS", "results", "MATLAB", "matlab",
     "octave", "not", "Not", "found", "Found", "toolbox", "License", "license", "checkout",
     "failed", "is", "recognized", "Irrigate"}
IsWord(c) == c \in Words

\* the lines of `=` the report and the patterns are made of: Underlines[k] has k of them
Underlines ==
    << "=", "==", "===", "====", "=====", "======", "=======", "========", "=========",
       "==========", "===========", "============", "=============", "==============",
       "===============", "================", "=================", "==================",
       "===================", "====================", "=====================",
       "======================", "=======================", "========================" >>
IsUnderline(c) == \E k \in DOMAIN Underlines : Underlines[k] = c
UnderlineLen(c) == CHOOSE k \in DOMAIN Underlines : Underlines[k] = c

\* the first index from i on that holds no white space (Len(t) + 1 if none does)
SkipSpace(t, i) ==
    CHOOSE j \in i..(Len(t) + 1) :
        /\ \A k \in i..(j - 1) : IsSpace(t[k])
        /\ j = Len(t) + 1 \/ ~IsSpace(t[j])

\* the last index of the run of words that starts at j
WordRunEnd(t, j) ==
    CHOOSE e \in j..Len(t) :
        /\ \A k \in j..e : IsWord(t[k])
        /\ e = Len(t) \/ ~IsWord(t[e + 1])

\* str.strip()
Strip(t) ==
    LET solid == {i \in 1..Len(t) : ~IsSpace(t[i])}
    IN IF solid = {} THEN << >>
       ELSE SubSeq(t, CHOOSE i \in solid : \A j \in solid : i <= j,
                      CHOOSE i \in solid : \A j \in solid : i >= j)

(* ---------------------------------------------------------------------- *)
(* Python floats (IEEE 754 binary64): a positive float is m * 2^e, with m  *)
(* given by its MantissaBits bits, least significant first                 *)
(* ---------------------------------------------------------------------- *)
MantissaBits == 53
LimbBits == 8
Radix == 2 ^ LimbBits

Zeros(k) == [i \in 1..k |-> 0]

RECURSIVE NatBits(_)
NatBits(k) == IF k = 0 THEN << >> ELSE << k % 2 >> \o NatBits(k \div 2)

RECURSIVE BitsNat(_)
BitsNat(b) == IF b = << >> THEN 0 ELSE Head(b) + 2 * BitsNat(Tail(b))

\* the bits of a number written with hexadecimal digits, most significant first
RECURSIVE HexBits(_)
HexBits(h) ==
    IF h = << >> THEN << >>
    ELSE LET d == h[Len(h)]
         IN << d % 2, (d \div 2) % 2, (d \div 4) % 2, d \div 8 >>
              \o HexBits(SubSeq(h, 1, Len(h) - 1))

\* the bits without the leading zeros
TrimBits(b) ==
    LET top == IF \A i \in 1..Len(b) : b[i] = 0 THEN 0
               ELSE CHOOSE i \in 1..Len(b) : b[i] = 1 /\ \A j \in (i + 1)..Len(b) : b[j] = 0
    IN SubSeq(b, 1, top)

\* the bits of a + 1
Increment(a) ==
    LET z == IF \A i \in 1..Len(a) : a[i] = 1 THEN Len(a) + 1
             ELSE CHOOSE i \in 1..Len(a) : a[i] = 0 /\ \A j \in 1..(i - 1) : a[j] = 1
    IN [i \in 1..(IF z > Len(a) THEN z ELSE Len(a)) |->
            IF i < z THEN 0 ELSE IF i = z THEN 1 ELSE a[i]] \o << >>

RECURSIVE SumTo(_, _)
SumTo(f, k) == IF k = 0 THEN 0 ELSE f[k] + SumTo(f, k - 1)

BitAt(a, k) == IF k \in 1..Len(a) THEN a[k] ELSE 0

\* a number as limbs of LimbBits bits, least significant first
Limbs(a) ==
    [j \in 1..((Len(a) + LimbBits - 1) \div LimbBits) |->
        SumTo([i \in 1..LimbBits |-> BitAt(a, LimbBits * (j - 1) + i) * 2 ^ (i - 1)], LimbBits)]
      \o << >>

\* the column sums of the long multiplication of two limb sequences
Columns(x, y) ==
    [k \in 1..(Len(x) + Len(y)) |->
        SumTo([i \in 1..Len(x) |->
                 IF k + 1 - i \in 1..Len(y) THEN x[i] * y[k + 1 - i] ELSE 0], Len(x))]
      \o << >>

\* the carries taken from the columns into limbs
Carried(col) ==
    LET carry[k \in 0..Len(col)] ==
            IF k = 0 THEN 0 ELSE (col[k] + carry[k - 1]) \div Radix
    IN [k \in 1..Len(col) |-> (col[k] + carry[k - 1]) % Radix] \o << >>

BitsOfLimbs(limb) ==
    [k \in 1..(Len(limb) * LimbBits) |->
        (limb[(k - 1) \div LimbBits + 1] \div 2 ^ ((k - 1) % LimbBits)) % 2] \o << >>

\* the exact product of two numbers given by their bits
MulBits(a, b) == BitsOfLimbs(Carried(Columns(Limbs(a), Limbs(b))))

\* the float that float.hex() writes 0x<h1>.<h2..>p<p>
Float(hex, p) == [m |-> TrimBits(HexBits(hex)), e |-> p - (MantissaBits - 1)]

\* float(k) of a positive int k below 2^MantissaBits: exact
FromInt(k) ==
    LET b == NatBits(k)
    IN [m |-> Zeros(MantissaBits - Len(b)) \o b, e |-> Len(b) - MantissaBits]

\* x * y: the exact product rounded to MantissaBits bits, ties to even
FloatMul(x, y) ==
    LET p == TrimBits(MulBits(x.m, y.m))
        s == Len(p) - MantissaBits
        kept == SubSeq(p, s + 1, Len(p))
        half == p[s] = 1
        sticky == \E i \in 1..(s - 1) : p[i] = 1
        up == half /\ (sticky \/ kept[1] = 1)
        r == IF up THEN Increment(kept) ELSE kept
    IN IF Len(r) > MantissaBits
       THEN [m |-> Tail(r), e |-> x.e + y.e + s + 1]
       ELSE [m |-> r, e |-> x.e + y.e + s]

\* int(x) of a positive float: the fraction is cut off
Trunc(x) ==
    IF x.e >= 0 THEN BitsNat(Zeros(x.e) \o x.m)
    ELSE BitsNat(SubSeq(x.m, 1 - x.e, Len(x.m)))

\* the float literals of lines 125-137, as float.hex() shows them
Literal(text) ==
    CASE text = "1.2" -> Float(<< 1, 3, 3, 3, 3, 3, 3, 3, 3, 3, 3, 3, 3, 3 >>, 0)
      [] text = "0.9" -> Float(<< 1, 12, 12, 12, 12, 12, 12, 12, 12, 12, 12, 12, 12, 13 >>, -1)
      [] text = "0.6" -> Float(<< 1, 3, 3, 3, 3, 3, 3, 3, 3, 3, 3, 3, 3, 3 >>, -1)
      [] text = "1.1" -> Float(<< 1, 1, 9, 9, 9, 9, 9, 9, 9, 9, 9, 9, 9, 10 >>, 0)
      [] text = "0.8" -> Float(<< 1, 9, 9, 9, 9, 9, 9, 9, 9, 9, 9, 9, 9, 10 >>, -1)
      [] text = "0.5" -> Float(<< 1, 0, 0, 0, 0, 0, 0, 0, 0, 0, 0, 0, 0, 0 >>, -1)

Least(S) == CHOOSE x \in S : \A y \in S : x <= y

(* ---------------------------------------------------------------------- *)
(* The rules of get_ai_response                                            *)
(* ---------------------------------------------------------------------- *)
\* data.get('message') of a request without a 'message'
None == << "<None>" >>
\* None.lower() at line 105: the exception leaves get_ai_response and chat
AttributeError == << "<AttributeError: 'NoneType' object has no attribute 'lower'>" >>

\* lines 108-110: the two replies without a context
ProfitNeedsAnalysis ==
    << "I can only calculate potential profit after an analysis has been run. Please run the analysis first." >>
NoAnalysisYet ==
    << "I don't have any analysis results to work with yet. Please click 'Run Analysis' first." >>

\* a reply without a context that does not look at the question
NoContextReplyAlwaysGeneric(lowered) == NoAnalysisYet

NoContextReply(lowered) ==
    IF Contains(lowered, << "profit" >>) THEN ProfitNeedsAnalysis ELSE NoAnalysisYet

\* re.search(label + r"\s*(\w+)", context, re.IGNORECASE) and .group(1).lower(),
\* "unknown" without a match
FieldValue(ctx, label) ==
    LET hits == {i \in 1..Len(ctx) :
                    /\ Lower(ctx[i]) = Lower(label)
                    /\ SkipSpace(ctx, i + 1) <= Len(ctx)
                    /\ IsWord(ctx[SkipSpace(ctx, i + 1)])}
    IN IF hits = {} THEN << "unknown" >>
       ELSE LET j == SkipSpace(ctx, Least(hits) + 1)
            IN LowerText(SubSeq(ctx, j, WordRunEnd(ctx, j)))

\* a pest factor with the values of medium and high exchanged
PestFactorExchanged(base, status) ==
    IF status = << "low" >> THEN FloatMul(base, Literal("1.1"))
    ELSE IF status = << "medium" >> THEN FloatMul(base, Literal("0.5"))
    ELSE IF status = << "high" >> THEN FloatMul(base, Literal("0.8"))
    ELSE base

\* lines 124-129
HealthFactor(base, status) ==
    IF status = << "good" >> THEN FloatMul(base, Literal("1.2"))
    ELSE IF status = << "moderate" >> THEN FloatMul(base, Literal("0.9"))
    ELSE IF status = << "poor" >> THEN FloatMul(base, Literal("0.6"))
    ELSE base

\* lines 132-137
PestFactor(base, status) ==
    IF status = << "low" >> THEN FloatMul(base, Literal("1.1"))
    ELSE IF status = << "medium" >> THEN FloatMul(base, Literal("0.8"))
    ELSE IF status = << "high" >> THEN FloatMul(base, Literal("0.5"))
    ELSE base

\* base_profit = 1000
BaseProfit == 1000

\* the statuses the `if`s of lines 124-137 tell apart; any other leaves
\* base_profit as it is, as "unknown" does
HealthStatuses == {<< "good" >>, << "moderate" >>, << "poor" >>, << "unknown" >>}
PestStatuses == {<< "low" >>, << "medium" >>, << "high" >>, << "unknown" >>}

\* lines 121-139: base_profit after the two factors, and int(base_profit); an
\* int times a float is the float of the int times the float.  The sixteen
\* values are computed once.
Estimates ==
    [health \in HealthStatuses, pest \in PestStatuses |->
        Trunc(PestFactor(HealthFactor(FromInt(BaseProfit), health), pest))]

EstimatedProfit(health, pest) ==
    Estimates[IF health \in HealthStatuses THEN health ELSE << "unknown" >>,
              IF pest \in PestStatuses THEN pest ELSE << "unknown" >>]

\* the f-string of line 139
ProfitText(amount) ==
    << "Based on the analysis, the estimated potential profit is around $",
       ToString(amount),
       " per unit area. This is an estimate based on crop health and pest risk." >>

\* lines 113-139
ProfitReply(ctx) ==
    ProfitText(EstimatedProfit(FieldValue(ctx, "Overall Crop Health Status:"),
                               FieldValue(ctx, "Overall Pest Risk Level:")))

\* re.search(title + r"\s*" + width * "=" + r"([\s\S]*?)" + end, context):
\* the leftmost title that is followed by white space and at least `width`
\* signs `=` and then, somewhere, by the text `end`; the group runs up to the
\* first `end` (to the end of the context for end = << >>, the pattern of
\* line 154, whose group is greedy)
SectionMatch(ctx, title, width, end) ==
    LET Under(i) == SkipSpace(ctx, i + 1)
        HeaderAt(i) == /\ ctx[i] = title
                       /\ Under(i) <= Len(ctx)
                       /\ IsUnderline(ctx[Under(i)])
                       /\ UnderlineLen(ctx[Under(i)]) >= width
        EndsAfter(j) == IF end = << >> THEN {Len(ctx) + 1}
                        ELSE {k \in (j + 1)..Len(ctx) : ctx[k] = end[1]}
        starts == {i \in 1..Len(ctx) : HeaderAt(i) /\ EndsAfter(Under(i)) # {}}
    IN IF starts = {} THEN [found |-> FALSE, group |-> << >>]
       ELSE LET j == Under(Least(starts))
                extra == UnderlineLen(ctx[j]) - width
            IN [found |-> TRUE,
                group |-> (IF extra > 0 THEN << Underlines[extra] >> ELSE << >>)
                             \o SubSeq(ctx, j + 1, Least(EndsAfter(j)) - 1)]

\* match.group(1) of a search that found nothing
NoneHasNoGroup == << "<AttributeError: 'NoneType' object has no attribute 'group'>" >>

\* a section reply that takes the group without looking at the match
SectionReplyUnguarded(ctx, title, width, end, missing) ==
    IF SectionMatch(ctx, title, width, end).found
    THEN Strip(SectionMatch(ctx, title, width, end).group)
    ELSE NoneHasNoGroup

\* match.group(1).strip() if match else "I couldn't find ..."
SectionReply(ctx, title, width, end, missing) ==
    IF SectionMatch(ctx, title, width, end).found
    THEN Strip(SectionMatch(ctx, title, width, end).group)
    ELSE << missing >>

\* line 157
CapabilityReply ==
    << "I can answer questions about crop health, soil conditions, pest risk, and potential profit. What would you like to know?" >>

\* a dispatch that tests "pest" ahead of "profit"
DispatchPestFirst == << "pest", "profit", "crop health", "soil", "recommendations" >>

\* the order of the `if`s of lines 113-155
Dispatch == << "profit", "crop health", "soil", "pest", "recommendations" >>

\* the condition of each `if`, on the lower-cased message
RuleMatches(rule, lowered) ==
    CASE rule = "profit" -> Contains(lowered, << "profit" >>)
      [] rule = "crop health" -> Contains(lowered, << "crop", " ", "health" >>)
      [] rule = "soil" -> Contains(lowered, << "soil" >>) \/ Contains(lowered, << "moisture" >>)
      [] rule = "pest" -> Contains(lowered, << "pest" >>)
      [] rule = "recommendations" -> Contains(lowered, << "recommendations" >>)

\* the body of each `if`, and the final return
RuleReply(rule, ctx) ==
    CASE rule = "profit" -> ProfitReply(ctx)
      [] rule = "crop health" ->
            SectionReply(ctx, "CROP HEALTH ANALYSIS", 20, << "SOIL CONDITION ANALYSIS" >>,
                         "I couldn't find the Crop Health section in the analysis.")
      [] rule = "soil" ->
            SectionReply(ctx, "SOIL CONDITION ANALYSIS", 23, << "PEST RISK ANALYSIS" >>,
                         "I couldn't find the Soil Condition section in the analysis.")
      [] rule = "pest" ->
            SectionReply(ctx, "PEST RISK ANALYSIS", 18, << "RECOMMENDATIONS" >>,
                         "I couldn't find the Pest Risk section in the analysis.")
      [] rule = "recommendations" ->
            SectionReply(ctx, "RECOMMENDATIONS", 15, << >>,
                         "I couldn't find any recommendations in the analysis.")
      [] OTHER -> CapabilityReply

\* the first rule of `order` whose condition holds
FirstMatch(lowered, order) ==
    LET hits == {i \in DOMAIN order : RuleMatches(order[i], lowered)}
    IN IF hits = {} THEN "default" ELSE order[Least(hits)]

\* lines 101-157
get_ai_response(msg, ctx) ==
    IF msg = None THEN AttributeError
    ELSE IF ctx = << >> THEN NoContextReply(LowerText(msg))
    ELSE RuleReply(FirstMatch(LowerText(msg), Dispatch), ctx)

(* ---------------------------------------------------------------------- *)
(* The requests of /chat                                                   *)
(* ---------------------------------------------------------------------- *)
\* the chunks questions are made of
QuestionChunks ==
    {"Profit", "crop", " ", "health", "Soil", "moisture", "pest", "recommendations", "s?"}

RECURSIVE TextsUpTo(_, _)
TextsUpTo(chunks, k) ==
    IF k = 0 THEN {<< >>}
    ELSE TextsUpTo(chunks, k - 1)
           \cup {Append(t, c) : t \in {u \in TextsUpTo(chunks, k - 1) : Len(u) = k - 1},
                                c \in chunks}

Questions == TextsUpTo(QuestionChunks, MaxQuestionLen)

\* a line `label value` of a report
FieldLine(label, value) == << label, " ", value, "\n" >>

HealthFields ==
    {<< "Overall Crop Health Status:", "Good" >>, << "Overall Crop Health Status:", "GOOD" >>,
     << "Overall Crop Health Status:", "Moderate" >>, << "Overall Crop Health Status:", "poor" >>,
     << "Overall Crop Health Status:", "Excellent" >>,
     << "OVERALL CROP HEALTH STATUS:", "Good" >>}
PestFields ==
    {<< "Overall Pest Risk Level:", "Low" >>, << "Overall Pest Risk Level:", "LOW" >>,
     << "Overall Pest Risk Level:", "Medium" >>, << "Overall Pest Risk Level:", "high" >>,
     << "Overall Pest Risk Level:", "Severe" >>,
     << "overall pest risk level:", "Low" >>}

HealthLines ==
    {<< >>} \cup {FieldLine(f[1], f[2]) : f \in HealthFields}
       \cup {<< "Overall Crop Health Status:", "\n", "Good", "\n" >>,
             << "Overall Crop Health Status:", " ", "(", "Good", ")", "\n" >>}
PestLines == {<< >>} \cup {FieldLine(f[1], f[2]) : f \in PestFields}

\* a report that states the two categories the profit rule reads
ProfitReport(health, pest) == << "FIELD REPORT", "\n" >> \o health \o pest

\* the sections of a report of the engine's layout
Preamble(kind) ==
    CASE kind = "cites" ->
            << "See ", "PEST RISK ANALYSIS", " and ", "RECOMMENDATIONS", " below", "\n" >>
      [] OTHER -> << >>
CropSection ==
    << "CROP HEALTH ANALYSIS", "\n", Underlines[20], "\n", "Overall Health: Good", "\n", "\n" >>
SoilSection(kind) ==
    CASE kind = "full" ->
            << "SOIL CONDITION ANALYSIS", "\n", Underlines[23], "\n", "Moisture: 40%", "\n", "\n" >>
      [] OTHER -> << >>
PestHeader(kind) ==
    CASE kind = "full" -> << "PEST RISK ANALYSIS", "\n", Underlines[18], "\n" >>
      [] kind = "short" -> << "PEST RISK ANALYSIS", "\n", Underlines[17], "\n" >>
      [] kind = "long" -> << "PEST RISK ANALYSIS", "\n", Underlines[20], "\n" >>
      [] kind = "bare" -> << "PEST RISK ANALYSIS", "\n" >>
      [] kind = "lower" -> << "Pest Risk Analysis", "\n", Underlines[18], "\n" >>
      [] OTHER -> << >>
PestBody(kind) ==
    CASE kind = "cites" ->
            << "Aphids: low", "\n", "See ", "RECOMMENDATIONS", " below", "\n", "\n" >>
      [] kind = "echoes" ->
            << "Aphids: low", "\n", "End of ", "PEST RISK ANALYSIS", "\n", "\n" >>
      [] kind = "empty" -> << "\n" >>
      [] OTHER -> << "Aphids: low", "\n", "\n" >>
RecSection(kind) ==
    CASE kind = "full" -> << "RECOMMENDATIONS", "\n", Underlines[15], "\n", "Irrigate", "\n" >>
      [] OTHER -> << >>

SectionReport(pre, soil, head, body, rec) ==
    Preamble(pre) \o CropSection \o SoilSection(soil) \o PestHeader(head) \o PestBody(body)
        \o RecSection(rec)

\* preamble, soil section, pest header, pest body, recommendations
SectionShapes ==
    {<< "none", "full", "full", "plain", "full" >>,
     << "cites", "full", "full", "plain", "full" >>,
     << "none", "full", "full", "cites", "full" >>,
     << "none", "full", "full", "echoes", "full" >>,
     << "cites", "full", "full", "cites", "full" >>,
     << "none", "full", "full", "empty", "full" >>,
     << "none", "none", "full", "plain", "full" >>,
     << "none", "full", "short", "plain", "full" >>,
     << "none", "full", "long", "plain", "full" >>,
     << "none", "full", "bare", "plain", "full" >>,
     << "none", "full", "lower", "plain", "full" >>,
     << "none", "full", "none", "plain", "full" >>,
     << "none", "full", "full", "plain", "none" >>,
     << "cites", "none", "none", "plain", "none" >>}

\* the texts run_matlab puts into full_context, and no context at all
RunOutputs ==
    {GeneratedReport,
     UnavailableDemoOutput(GeneratedReport),
     FailedDemoOutput(<< "/bin/sh:", "matlab", "not", "found" >>, GeneratedReport),
     << "RESULTS" >>, << " " >>, << >>}

Contexts ==
    {ProfitReport(h, p) : h \in HealthLines, p \in PestLines}
      \cup {SectionReport(s[1], s[2], s[3], s[4], s[5]) : s \in SectionShapes}
      \cup RunOutputs

\* the /run-matlab handler at rest, the server started by import
Parked ==
    /\ threads = 1
    /\ asMain = FALSE
    /\ pillow = TRUE
    /\ environ = [DEMO_MODE |-> Unset, STRICT_MATLAB |-> Unset, MATLAB_CMD |-> Unset]
    /\ dir = {}
    /\ pixels = [f \in dir |-> OldPixels]
    /\ Start

\* a /chat request arrives: data.get('message'), data.get('analysis_context', '')
ChatInit ==
    /\ Parked
    /\ message \in Questions \cup {None}
    /\ context \in Contexts
    /\ reply = NoReply
    /\ NoPixel

\* lines 91-99: reply = get_ai_response(message, context)
Chat ==
    /\ reply = NoReply
    /\ reply' = get_ai_response(message, context)
    /\ UNCHANGED << threads, asMain, pillow, environ, envChanges, requests, dir, pixels,
                    locals, hist, message, context, grey, rgb >>

ChatSpec == ChatInit /\ [][Chat]_vars


(* ====================================================================== *)
(* The palette: apply_jet_palette and jet_rgb                              *)
(* ====================================================================== *)
\* the largest value of a pixel of the grey image (line 290)
GreyMax == 255
\* intensities and channels are counted in units of 1 / Scale, so that the
\* grey levels k / GreyMax and the breakpoints 1/4, 1/2, 3/4 are whole numbers;
\* 0.25, 0.5, 0.75 and 4.0 are exact in binary, and the clamp of lines 306-308
\* bounds whatever rounding the float arithmetic adds between them
Scale == 4 * GreyMax

\* v = gray_img.getpixel((x, y)) / 255.0, and the three breakpoints
GreyLevels == {4 * k : k \in 0..GreyMax}
Breakpoints == {Scale \div 4, Scale \div 2, (3 * Scale) \div 4}
Intensities == GreyLevels \cup Breakpoints

\* max(0.0, min(1.0, x))
Clamp(x) == IF x > Scale THEN Scale ELSE IF x < 0 THEN 0 ELSE x

\* segments whose third formula starts from the wrong breakpoint
SegmentWithJump(s, v) ==
    CASE s = 1 -> << 0, 4 * v, Scale >>
      [] s = 2 -> << 0, Scale, Scale - 4 * (v - Scale \div 4) >>
      [] s = 3 -> << 4 * (v - Scale \div 4), Scale, 0 >>
      [] s = 4 -> << Scale, Scale - 4 * (v - (3 * Scale) \div 4), 0 >>

\* lines 298-305: r, g, b of each of the four segments
Segment(s, v) ==
    CASE s = 1 -> << 0, 4 * v, Scale >>
      [] s = 2 -> << 0, Scale, Scale - 4 * (v - Scale \div 4) >>
      [] s = 3 -> << 4 * (v - Scale \div 2), Scale, 0 >>
      [] s = 4 -> << Scale, Scale - 4 * (v - (3 * Scale) \div 4), 0 >>

\* the tests v < 0.25, v < 0.5, v < 0.75
SegmentOf(v) ==
    IF 4 * v < Scale THEN 1
    ELSE IF 2 * v < Scale THEN 2
    ELSE IF 4 * v < 3 * Scale THEN 3
    ELSE 4

\* the clamp of lines 306-308, on the three channels
Clamped(c) == << Clamp(c[1]), Clamp(c[2]), Clamp(c[3]) >>

\* lines 296-309
jet_rgb(v) == Clamped(Segment(SegmentOf(v), v))

\* a pixel of intensity v is in hand
PaletteInit ==
    /\ Parked
    /\ NoChat
    /\ grey \in Intensities
    /\ rgb = NoColour

\* line 291: r, g, b = jet_rgb(v)
JetRgb ==
    /\ rgb = NoColour
    /\ rgb' = jet_rgb(grey)
    /\ UNCHANGED << threads, asMain, pillow, environ, envChanges, requests, dir, pixels,
                    locals, hist, message, context, reply, grey >>

PaletteSpec == PaletteInit /\ [][JetRgb]_vars

(* ====================================================================== *)
(* Properties                                                              *)
(* ====================================================================== *)
Done(r) == pc[r] = "done"

\* the request's configuration, as os.environ held it when the request began
ReqDemoForced(r) == cfg0[r].DEMO_MODE = "1"
ReqStrict(r) == cfg0[r].STRICT_MATLAB = "1"

IsResult(r) == resp[r].kind = "result"
IsDemoResult(r) == resp[r].kind = "result" /\ resp[r].mode = "demo"

\* the URLs of the .png files of directory d, spelled out
UrlsOfPngIn(d) == {<<"/results/", f.stem, ".png">> : f \in {g \in d : g.ext = ".png"}}

\* the identifiers of the nine maps of the demo generator
NineMapNames ==
    {"ndvi_map", "gndvi_map", "ndre_map", "savi_map", "evi_map", "soil_condition_map",
     "crop_health_map", "pest_risk_map", "pest_risk_score_map"}

\* text t ends with the whole generated report and has text ahead of it
HasPrefixAheadOfReport(t) ==
    /\ Len(t) > Len(DemoReportLines)
    /\ SubSeq(t, Len(t) - Len(DemoReportLines) + 1, Len(t)) = DemoReportLines

\* the command-not-found signature in terms of the configured engine command:
\* "not found" together with the command name, or exit code 127
ConfiguredNotFound(r) ==
    \/ /\ Contains(LowerText(proc[r].stdout \o proc[r].stderr), << "not", "found" >>)
       /\ Contains(LowerText(proc[r].stdout \o proc[r].stderr), << Lower(cmd[r]) >>)
    \/ proc[r].returncode = 127

\* C1: a request made with DEMO_MODE=1 answers with a mode=demo result that the
\* generator produced, and never starts the engine process (no save failed).
C1_DemoForcedYieldsDemo ==
    \A r \in Req :
        (Done(r) /\ ReqDemoForced(r) /\ ~writeFailed[r])
            => (IsDemoResult(r) /\ genCalled[r] /\ ~spawned[r])

C3_UnavailableFallsBack ==
    \A r \in Req :
        (Done(r) /\ ~ReqDemoForced(r) /\ ~ReqStrict(r) /\ ~onPath[r] /\ ~writeFailed[r])
            => /\ ~spawned[r]
               /\ IsDemoResult(r)
               /\ resp[r].output = UnavailablePrefix \o DemoReportLines
               /\ resp[r].images = UrlsOfPngIn(dirAtList[r])
               /\ dirAtWriteEnd[r] \subseteq dirAtList[r]

\* C4 as stated: an engine run that exits with status 0 is answered with a
\* result whose text is the captured stdout, whose mode is "real" and whose
\* images are the .png files of the results directory at that moment; every
\* result envelope has mode "real" or "demo".
C4_RealModeEnvelope ==
    \A r \in Req :
        /\ (Done(r) /\ spawned[r] /\ onPath[r] /\ proc[r].returncode = 0)
              => /\ IsResult(r)
                 /\ resp[r].output = proc[r].stdout
                 /\ resp[r].mode = "real"
                 /\ resp[r].images = UrlsOfPngIn(dirAtList[r])
        /\ IsResult(r) => resp[r].mode \in {"real", "demo"}

\* C4 amended: the same, with the envelope value "matlab" for a real run: the
\* mode of a result envelope is "matlab" or "demo".
C4_MatlabModeEnvelope ==
    \A r \in Req :
        /\ (Done(r) /\ spawned[r] /\ onPath[r] /\ proc[r].returncode = 0)
              => /\ IsResult(r)
                 /\ resp[r].output = proc[r].stdout
                 /\ resp[r].full_context = proc[r].stdout
                 /\ resp[r].mode = "matlab"
                 /\ resp[r].images = UrlsOfPngIn(dirAtList[r])
        /\ IsResult(r) => resp[r].mode \in {"matlab", "demo"}

C4_Witness ==
    \E r \in Req :
        /\ Done(r) /\ spawned[r] /\ onPath[r] /\ proc[r].returncode = 0
        /\ proc[r].stderr # << >>
        /\ resp[r].kind = "result" /\ resp[r].mode = "matlab"
        /\ resp[r].output = << "RESULTS" >>
        /\ <<"/results/", "summary", ".png">> \in resp[r].images
        /\ \E f \in dirAtList[r] : f.ext # ".png"

\* C5: an engine run that exits with a non-zero status, with STRICT_MATLAB
\* unset and an output that carries "not found" together with the configured
\* command name, or exit code 127, is answered with a mode=demo result whose
\* text is the captured diagnostic followed by the generated report (server
\* started by import, no save failed).
C5_NotFoundExitFallsBack ==
    \A r \in Req :
        (/\ Done(r) /\ stable[r] /\ ~asMain /\ ~writeFailed[r]
         /\ spawned[r] /\ proc[r].returncode # 0
         /\ ~ReqStrict(r) /\ ConfiguredNotFound(r))
            => /\ IsDemoResult(r)
               /\ resp[r].output =
                     FailedPrefix \o proc[r].stdout \o proc[r].stderr
                        \o << "\n\n" >> \o DemoReportLines

\* C6: an engine run that exits with a non-zero status, with STRICT_MATLAB set
\* or an output without the command-not-found signature of the configured
\* command, is answered with an error envelope whose details are stdout
\* followed by stderr; the generator is not entered (server started by import).
C6_OtherFailureIsError ==
    \A r \in Req :
        (/\ Done(r) /\ stable[r] /\ ~asMain /\ spawned[r] /\ proc[r].returncode # 0
         /\ (ReqStrict(r) \/ ~ConfiguredNotFound(r)))
            => /\ resp[r] = [kind |-> "error", error |-> "MATLAB script execution failed.",
                             details |-> proc[r].stdout \o proc[r].stderr]
               /\ ~genCalled[r]

\* C7: every mode=demo result has explanatory text ahead of the generated report.
C7_DemoResultIsAnnotated ==
    \A r \in Req :
        (Done(r) /\ IsDemoResult(r)) => HasPrefixAheadOfReport(resp[r].output)

\* C8: when two DEMO_MODE=1 requests ran at the same time and both are over,
\* each has a result envelope whose images hold the nine map names and only
\* files that were in the results directory when it had saved its own maps
\* (server started by import, no save failed).
C8_ConcurrentDemoListsNineMaps ==
    (\A r \in Req : Done(r) /\ conc[r] /\ ReqDemoForced(r) /\ ~writeFailed[r] /\ ~asMain)
        => \A r \in Req :
              /\ IsResult(r)
              /\ \A m \in NineMapNames : <<"/results/", m, ".png">> \in resp[r].images
              /\ resp[r].images \subseteq UrlsOfPngIn(dirAtWriteEnd[r])

\* C9: the STRICT_MATLAB value a request uses in a decision is the value
\* os.environ held when the request began.
C9_StrictResolvedOnce ==
    \A r \in Req :
        strictUsed[r] # "unread" => strictUsed[r] = Getenv(cfg0[r], "STRICT_MATLAB", "0")

\* C10: every request that has entered run_matlab is answered.
C10_EveryRequestReturns ==
    \A r \in Req : (pc[r] = "wait") ~> (pc[r] = "done")

\* C11: a request whose generator failed to write an image is over at once and
\* is answered with an error envelope that carries the text of the failure; it
\* is never answered with a result envelope, on any of the three demo paths.
C11_WriteFailureIsError ==
    \A r \in Req :
        writeFailed[r] =>
            /\ Done(r)
            /\ path[r] \in {"forced", "unavailable", "failed"}
            /\ resp[r].kind = "error"
            /\ resp[r].error = OSErrorMsg
            /\ ~IsResult(r)

C11_Witness ==
    \E r \in Req :
        /\ writeFailed[r] /\ Done(r)
        /\ path[r] = "failed" /\ n[r] > 0 /\ MapFile(1) \in dir
        /\ resp[r] = [kind |-> "error", error |-> "[Errno 28] No space left on device"]

(* ---------------------------------------------------------------------- *)
(* Properties of get_ai_response                                           *)
(* ---------------------------------------------------------------------- *)
\* the /chat request carried a question and has been answered
Answered == reply # NoReply /\ message # None

\* the lower-cased question contains the word
Says(word) == Contains(LowerText(message), << word >>)
SaysCropHealth == Contains(LowerText(message), << "crop", " ", "health" >>)

\* the context ends with the whole generated report
EndsWithGeneratedReport(t) ==
    /\ Len(t) >= Len(DemoReportLines)
    /\ SubSeq(t, Len(t) - Len(DemoReportLines) + 1, Len(t)) = DemoReportLines

ProfitPhrase == "Based on the analysis, the estimated potential profit is around $"

\* C12: with a non-empty report the reply is the one of the first rule, in the
\* order profit, "crop health", soil or moisture, pest, recommendations, whose
\* keyword the lower-cased question contains; a question with both "profit"
\* and "pest" gets the profit estimate, a question with no keyword the fixed
\* description of what the assistant can answer.
C12_FirstMatchDispatch ==
    (Answered /\ context # << >>) =>
        /\ reply = IF Says("profit") THEN RuleReply("profit", context)
                   ELSE IF SaysCropHealth THEN RuleReply("crop health", context)
                   ELSE IF Says("soil") \/ Says("moisture") THEN RuleReply("soil", context)
                   ELSE IF Says("pest") THEN RuleReply("pest", context)
                   ELSE IF Says("recommendations") THEN RuleReply("recommendations", context)
                   ELSE RuleReply("default", context)
        /\ (Says("profit") /\ Says("pest")) => (Len(reply) = 3 /\ reply[1] = ProfitPhrase)
        /\ ~(Says("profit") \/ SaysCropHealth \/ Says("soil") \/ Says("moisture")
              \/ Says("pest") \/ Says("recommendations"))
             => reply = << "I can answer questions about crop health, soil conditions, pest risk, and potential profit. What would you like to know?" >>

C12_Witness ==
    /\ Answered
    /\ message = << "pest", " ", "Profit" >>
    /\ context = SectionReport("none", "full", "full", "plain", "full")
    /\ reply = << ProfitPhrase, "1000",
                  " per unit area. This is an estimate based on crop health and pest risk." >>

\* the multipliers of the claim, in tenths
HealthTenths(word) ==
    CASE word \in {"Good", "GOOD"} -> 12
      [] word = "Moderate" -> 9
      [] word = "poor" -> 6
      [] word = "" -> 10
PestTenths(word) ==
    CASE word \in {"Low", "LOW"} -> 11
      [] word = "Medium" -> 8
      [] word = "high" -> 5
      [] word = "" -> 10

\* the line of a report that states the field, none for the word ""
StatedLine(field) == IF field[2] = "" THEN << >> ELSE FieldLine(field[1], field[2])

\* the fields with a category the profit rule knows, and the missing field
KnownHealthFields ==
    {f \in HealthFields : f[2] \in {"Good", "GOOD", "Moderate", "poor"}} \cup {<< "", "" >>}
KnownPestFields ==
    {f \in PestFields : f[2] \in {"Low", "LOW", "Medium", "high"}} \cup {<< "", "" >>}

\* C13: for a report that states the health category after the label "Overall
\* Crop Health Status" and the pest category after "Overall Pest Risk Level",
\* label and category in any case, either possibly missing, the profit reply
\* carries the integer part of 1000 x health multiplier x pest multiplier
\* (good 1.2, moderate 0.9, poor 0.6, low 1.1, medium 0.8, high 0.5, missing
\* 1.0), computed exactly; Good with Low gives 1320.
C13_ProfitIsExact ==
    (Answered /\ Says("profit")) =>
        \A h \in KnownHealthFields : \A p \in KnownPestFields :
            context = ProfitReport(StatedLine(h), StatedLine(p))
                => /\ reply = << ProfitPhrase,
                                 ToString((1000 * HealthTenths(h[2]) * PestTenths(p[2])) \div 100),
                                 " per unit area. This is an estimate based on crop health and pest risk." >>
                   /\ (h[2] = "Good" /\ p[2] = "Low") => reply[2] = "1320"

C13_Witness ==
    /\ Answered
    /\ message = << "Profit", "s?" >>
    /\ context = << "FIELD REPORT", "\n", "OVERALL CROP HEALTH STATUS:", " ", "Good", "\n",
                    "overall pest risk level:", " ", "Low", "\n" >>
    /\ reply[2] = "1320"

\* C14: the text of a demo run states, in label-and-value form, the two
\* categories the profit rule reads, so that a profit question asked with that
\* text as context is answered with their multipliers, not with the neutral
\* estimate of a report that states neither.
C14_DemoReportFeedsProfitRule ==
    (Answered /\ Says("profit") /\ EndsWithGeneratedReport(context)) =>
        /\ FieldValue(context, "Overall Crop Health Status:") \in
              {<< "good" >>, << "moderate" >>, << "poor" >>}
        /\ FieldValue(context, "Overall Pest Risk Level:") \in
              {<< "low" >>, << "medium" >>, << "high" >>}
        /\ reply # << ProfitPhrase, "1000",
                      " per unit area. This is an estimate based on crop health and pest risk." >>

\* the five section titles, in the order of the report contract
SectionTitles ==
    << "EXECUTIVE SUMMARY", "CROP HEALTH ANALYSIS", "SOIL CONDITION ANALYSIS",
       "PEST RISK ANALYSIS", "RECOMMENDATIONS" >>

\* len(title)
TitleLen(title) ==
    CASE title = "EXECUTIVE SUMMARY" -> 17
      [] title = "CROP HEALTH ANALYSIS" -> 20
      [] title = "SOIL CONDITION ANALYSIS" -> 23
      [] title = "PEST RISK ANALYSIS" -> 18
      [] title = "RECOMMENDATIONS" -> 15
      [] OTHER -> 0

\* the lines of text t that are followed by a line of `=`
Headings(t) == {i \in 1..(Len(t) - 1) : IsUnderline(t[i + 1])}

\* text t has the five sections, in order, and nothing else that is underlined
HasTheFiveSections(t) ==
    /\ Cardinality(Headings(t)) = Len(SectionTitles)
    /\ \A i \in Headings(t) : t[i] = SectionTitles[Cardinality({j \in Headings(t) : j <= i})]

\* every underline of text t is as long as the title above it
UnderlinesFitTitles(t) ==
    \A i \in Headings(t) : UnderlineLen(t[i + 1]) = TitleLen(t[i])

\* C15: the text generate_demo_results returned to a request that was answered
\* with a demo result has exactly the five sections EXECUTIVE SUMMARY, CROP
\* HEALTH ANALYSIS, SOIL CONDITION ANALYSIS, PEST RISK ANALYSIS and
\* RECOMMENDATIONS, in that order, each title line followed by a line of `=`
\* as long as the title.
C15_FiveUnderlinedSections ==
    \A r \in Req :
        (Done(r) /\ IsDemoResult(r))
            => /\ HasTheFiveSections(resp[r].output)
               /\ UnderlinesFitTitles(resp[r].output)

\* the pest questions: "pest" and none of the keywords tested ahead of it
AsksPest ==
    /\ Says("pest")
    /\ ~(Says("profit") \/ SaysCropHealth \/ Says("soil") \/ Says("moisture"))

\* C16: for a pest question and a report with a well-formed PEST RISK ANALYSIS
\* header (title and an underline of the title's length) that is followed by a
\* RECOMMENDATIONS section, the reply is the stripped text between that header
\* and the header of the RECOMMENDATIONS section, whether or not the text
\* ahead of the header or the body of the pest section cites the two titles.
C16_PestSectionBetweenHeaders ==
    \A pre \in {"none", "cites"} : \A soil \in {"none", "full"} :
    \A body \in {"plain", "cites", "echoes", "empty"} :
        (Answered /\ AsksPest /\ context = SectionReport(pre, soil, "full", body, "full"))
            => reply = Strip(PestBody(body))

\* the title and the fixed reply of each section rule
RuleTitle(rule) ==
    CASE rule = "crop health" -> "CROP HEALTH ANALYSIS"
      [] rule = "soil" -> "SOIL CONDITION ANALYSIS"
      [] rule = "pest" -> "PEST RISK ANALYSIS"
      [] rule = "recommendations" -> "RECOMMENDATIONS"
RuleApology(rule) ==
    CASE rule = "crop health" -> "I couldn't find the Crop Health section in the analysis."
      [] rule = "soil" -> "I couldn't find the Soil Condition section in the analysis."
      [] rule = "pest" -> "I couldn't find the Pest Risk section in the analysis."
      [] rule = "recommendations" -> "I couldn't find any recommendations in the analysis."

\* the section rule the question is answered by, "none" for the other questions
AskedSection ==
    IF Says("profit") THEN "none"
    ELSE IF SaysCropHealth THEN "crop health"
    ELSE IF Says("soil") \/ Says("moisture") THEN "soil"
    ELSE IF Says("pest") THEN "pest"
    ELSE IF Says("recommendations") THEN "recommendations"
    ELSE "none"

\* the reply is a text, not an exception that left get_ai_response
IsText(t) == \A i \in 1..Len(t) : t[i] \notin {AttributeError[1], NoneHasNoGroup[1]}

\* C17: every question asked with a non-empty report is answered with a text;
\* when the report does not hold the title of the section the question asks
\* for, the text is the fixed "I couldn't find ..." reply of that section (the
\* Soil Condition one for a soil or moisture question).
C17_MissingSectionIsApology ==
    (Answered /\ context # << >>) =>
        /\ IsText(reply)
        /\ \A rule \in {AskedSection} \ {"none"} :
              (\A i \in 1..Len(context) : context[i] # RuleTitle(rule))
                 => reply = << RuleApology(rule) >>

C17_Witness ==
    /\ Answered
    /\ message = << "Soil", " ", "moisture" >>
    /\ context = SectionReport("none", "none", "full", "plain", "full")
    /\ reply = << "I couldn't find the Soil Condition section in the analysis." >>

\* C18: a question asked without a context is answered with one of two fixed
\* and different texts, whatever else it asks: the one that tells to run the
\* analysis first when the lower-cased question contains "profit", the one
\* that says there are no results yet otherwise.
C18_NoContextIsFixedReply ==
    /\ ProfitNeedsAnalysis # NoAnalysisYet
    /\ (Answered /\ context = << >>) =>
          reply = IF Says("profit")
                  THEN << "I can only calculate potential profit after an analysis has been run. Please run the analysis first." >>
                  ELSE << "I don't have any analysis results to work with yet. Please click 'Run Analysis' first." >>

C18_Witness ==
    /\ Answered
    /\ context = << >>
    /\ message = << "pest", " ", "Profit" >>
    /\ reply = << "I can only calculate potential profit after an analysis has been run. Please run the analysis first." >>

\* the seed the claim gives for each seeded map
SeededMaps ==
    [ndvi_map |-> 1, gndvi_map |-> 2, ndre_map |-> 3, savi_map |-> 4, evi_map |-> 5,
     soil_condition_map |-> 6, pest_risk_score_map |-> 7]

\* the directory holds the nine maps as one invocation of the generator paints
\* them, whatever held their names before
HoldsTheNineMaps ==
    /\ \A name \in DOMAIN SeededMaps :
          /\ File(name, ".png") \in dir
          /\ pixels[File(name, ".png")] = [painter |-> "save_colormap", seed |-> SeededMaps[name]]
    /\ \A name \in {"crop_health_map", "pest_risk_map"} :
          /\ File(name, ".png") \in dir
          /\ pixels[File(name, ".png")] = [painter |-> "save_discrete_rgb", seed |-> 0]
    /\ Cardinality({f \in dir : pixels[f].painter \in {"save_colormap", "save_discrete_rgb"}}) = 9

\* C19: every invocation of generate_demo_results that returns leaves the same
\* nine image files in the results directory, each seeded map with the pixels
\* of its seed (1 to 7), written over any file of the same name, and returns a
\* text with the same five sections and the same lines, the Report ID and the
\* Analysis Date apart.
C19_GeneratorIsIdempotent ==
    \A r \in Req :
        /\ pc[r] = "list" => HoldsTheNineMaps
        /\ (Done(r) /\ IsDemoResult(r))
              => /\ EndsWithGeneratedReport(resp[r].output)
                 /\ HasTheFiveSections(resp[r].output)

(* ---------------------------------------------------------------------- *)
(* Properties of the palette                                               *)
(* ---------------------------------------------------------------------- *)
\* C20: for every grey level v = k/255 the three channels of jet_rgb(v) are
\* within [0, 1]; v = 0 gives (0, 0, 1) and v = 1 gives (1, 0, 0); at each of
\* the breakpoints 0.25, 0.5 and 0.75 the colour, which the code takes from
\* the segment that starts there, is also the colour the formula of the
\* segment that ends there gives.
C20_JetStaysInRangeAndJoins ==
    rgb # NoColour =>
        /\ \A c \in 1..3 : rgb[c] >= 0 /\ rgb[c] <= Scale
        /\ grey = 0 => rgb = << 0, 0, Scale >>
        /\ grey = Scale => rgb = << Scale, 0, 0 >>
        /\ \A s \in 1..3 :
              grey = (s * Scale) \div 4
                 => /\ SegmentOf(grey) = s + 1
                    /\ rgb = Clamped(Segment(s, grey))

C20_Witness ==
    /\ grey = Scale \div 2
    /\ rgb = << 0, Scale, 0 >>

(* ---------------------------------------------------------------------- *)
(* Properties of the results directory across requests                     *)
(* ---------------------------------------------------------------------- *)
\* the nine files the demo generator saves
NineMapFiles == {File(name, ".png") : name \in NineMapNames}

\* no step takes an image name out of the results directory
ImageNamesOnlyGrow == PngFiles(dir) \subseteq PngFiles(dir')

\* the result envelope of request r lists every image that was in the
\* directory when the request entered run_matlab
ListsWhatWasThere(r) == UrlsOfPngIn(dirAtBegin[r]) \subseteq resp[r].images

\* C21: no step of run_matlab or of generate_demo_results removes a file of
\* the results directory, so the set of image names only grows and every
\* result envelope lists at least the images present when its request began;
\* a successful engine run that began with the nine demo maps in the directory
\* lists the nine of them.
C21_ImagesOnlyGrow ==
    /\ [][ImageNamesOnlyGrow /\ dir \subseteq dir']_vars
    /\ [](\A r \in Req :
            /\ IsResult(r) => ListsWhatWasThere(r)
            /\ (IsResult(r) /\ resp[r].mode = "matlab" /\ NineMapFiles \subseteq dirAtBegin[r])
                  => UrlsOfPngIn(NineMapFiles) \subseteq resp[r].images)

C21_Witness ==
    \E r \in Req :
        /\ requests = 2
        /\ IsResult(r)
        /\ resp[r].mode = "matlab"
        /\ NineMapFiles \subseteq dirAtBegin[r]
        /\ File("field_rgb", ".png") \in dirAtBegin[r]
        /\ UrlsOfPngIn(NineMapFiles \cup {File("field_rgb", ".png"), File("summary", ".png")})
              \subseteq resp[r].images

(* ---------------------------------------------------------------------- *)
(* The fallback notice and the query engine                                *)
(* ---------------------------------------------------------------------- *)
\* the full_context of a run that fell back because the engine was not found
PrefixedReport == UnavailableDemoOutput(GeneratedReport)

\* C22: for every question, the reply of get_ai_response on the generated
\* report with the "MATLAB not found on PATH" notice in front of it is the
\* reply it gives on the generated report alone.
C22_PrefixKeepsAnswers ==
    (reply # NoReply /\ context = PrefixedReport)
        => reply = get_ai_response(message, GeneratedReport)

C22_Witness ==
    /\ context = PrefixedReport
    /\ Len(context) = Len(GeneratedReport) + 2
    /\ message = << "recommendations", "s?" >>
    /\ reply = get_ai_response(message, GeneratedReport)
    /\ reply[1] = "Crop Health Recommendations:"
    /\ reply[Len(reply)] = "=== END OF RESULTS ==="

====
